---- MODULE Spec2Model ----
(***************************************************************************)
(* Model of src/main.py: a webhook-driven margin order relay.              *)
(*                                                                         *)
(* Amounts, prices and quantities are fixed-point integers in hundredths   *)
(* (1.00 is 100).  Risk fractions are integers in percent (0.05 is 5).     *)
(* Margin ratios are integers in hundredths (1.25 is 125).  Python float   *)
(* rounding error is not modelled: arithmetic is exact.                    *)
(* The exchange is external: every read returns a value drawn from a small *)
(* set, every call either returns or raises (after the client's retries).  *)
(***************************************************************************)
EXTENDS Integers, Sequences, FiniteSets, TLC

VARIABLES
    TRADING_BLOCKED,      \* global, main.py:44
    MARGIN_MAX_RISK_PCT,  \* global, main.py:45 (percent)
    DRY_RUN,              \* configuration flag, main.py:38
    exchangeInfo,         \* the symbol filters the exchange reports
    pc,                   \* position of the request being handled
    data,                 \* payload of the request being handled
    response,             \* what the handler answered
    calls,                \* mutating exchange calls issued by this request
    didRead,              \* a read-only exchange call was issued by this request
    chk,                  \* which check_margin_level call of webhook() is running
    lastH,                \* ratio read by the most recent successful check
    sawLow,               \* a health check of this request read h < 1.25
    checked,              \* a health check of this request read a ratio
    prevLow,              \* ... and the successful check before it read h < 1.25
    recovered,            \* ... and it logged "recovered"
    clearAcct,            \* clear(): the account snapshot it read
    clearQueue,           \* clear(): the assets its loop has still to visit
    cleared,              \* clear(): cleared_symbols
    run,                  \* frame of handle_pre_trade_cleanup
    ent,                  \* frame of execute_long_margin / execute_short_margin
    brk,                  \* frame of place_sl_tp_margin
    RETRY_AMOUNT,         \* configuration, main.py:32-33
    rc,                   \* frame of _request_with_retries
    fq,                   \* frame of floor_to_step_str called on its own
    thr                   \* frames of webhook() requests handled by concurrent threads

cfgVars == <<DRY_RUN, exchangeInfo, RETRY_AMOUNT>>
riskVars == <<TRADING_BLOCKED, MARGIN_MAX_RISK_PCT, lastH, sawLow, checked, prevLow,
              recovered>>
clearVars == <<clearAcct, clearQueue, cleared>>
reqVars == <<pc, data, response, calls, didRead, chk, run, ent, brk>>

webVars == <<cfgVars, riskVars, clearVars, reqVars>>

fnVars == <<rc, fq, thr>>

vars == <<webVars, fnVars>>

----------------------------------------------------------------------------
(* Program constants *)

DEFAULT_RISK_PCT == 5
REDUCED_RISK_PCT == 2
H_low == 116
H_mid == 125
H_high == 200
BUFFER == 102
STOP_LOSS_PCT == 98
TAKE_PROFIT_PCT == 104
COMMISSION_BUFFER == 999
RETRY_CLAMP == 5
RETRY_DEFAULT == 3
DRY_RUN_BALANCE == 100000

(* Bounds of the model *)
MaxEnvRetry == 6
MaxValue == 40

(* Markers for values that are not there *)
Absent == 0 - 1
Invalid == 0 - 2

----------------------------------------------------------------------------
(* Input domains *)

Assets == {"BTC", "ETH"}
AssetOrder == <<"BTC", "ETH", "USDC">>

\* stepSize / tickSize as the exchange's decimal strings: units is the value in
\* hundredths, dec the number of fractional digits of the string.
Lots ==
    { [stepSize |-> [units |-> 1, dec |-> 2], tickSize |-> [units |-> 1, dec |-> 2],
       minQty |-> 1, minNotional |-> 1000],
      [stepSize |-> [units |-> 10, dec |-> 2], tickSize |-> [units |-> 5, dec |-> 2],
       minQty |-> 10, minNotional |-> 500],
      [stepSize |-> [units |-> 100, dec |-> 0], tickSize |-> [units |-> 100, dec |-> 0],
       minQty |-> 100, minNotional |-> 0],
      \* "0.10": a trailing zero
      [stepSize |-> [units |-> 10, dec |-> 2], tickSize |-> [units |-> 10, dec |-> 2],
       minQty |-> 10, minNotional |-> 500] }

\* the filters explored with the dry-run flag set
DryRunLots == {l \in Lots : l.minNotional = 1000}

Ratios == {115, 116, 124, 125, 199, 200}
Balances == {0, 10000, 100000}
Prices == {0, 100, 2500}
Borroweds == {0, 30, 200}
Frees == {0, 3, 50}
QuoteFrees == {0, 100000}
RiskInputs == {Absent, Invalid, 1, 10}
Sides == {"BUY", "SELL", "HOLD"}
\* sl / tp overrides of a payload
Overrides == { [sl |-> Absent, tp |-> Absent], [sl |-> 9803, tp |-> 10601],
               [sl |-> 0, tp |-> Absent] }

----------------------------------------------------------------------------
(* Arithmetic helpers *)

RECURSIVE Pow10(_)
Pow10(n) == IF n <= 0 THEN 1 ELSE 10 * Pow10(n - 1)

\* Decimal's // and ROUND_DOWN truncate toward zero
TruncDiv(a, b) == IF a >= 0 THEN a \div b ELSE 0 - ((0 - a) \div b)

Min(a, b) == IF a < b THEN a ELSE b

\* Decimal.quantize to `dec` fractional digits, default rounding (half even),
\* of an integer number of hundredths
QuantizeHalfEven(n, dec) ==
    LET u == Pow10(2 - dec)
        lo == (n \div u) * u
        r == n - lo
    IN  IF 2 * r < u THEN lo
        ELSE IF 2 * r > u THEN lo + u
        ELSE IF (lo \div u) % 2 = 0 THEN lo ELSE lo + u

\* a floor that rounds to the nearest multiple of the step
floor_to_step_str_nearest(num, den, step) ==
    LET n == TruncDiv(2 * num + den * step.units, 2 * den * step.units) * step.units
    IN  [val |-> QuantizeHalfEven(n, step.dec), dec |-> step.dec]

\* a floor whose division falls just short of an exact quotient
floor_to_step_str_lossy(num, den, step) ==
    LET n == TruncDiv(IF num > 0 THEN num - 1 ELSE num, den * step.units) * step.units
    IN  [val |-> QuantizeHalfEven(n, step.dec), dec |-> step.dec]

\* floor_to_step_str(value, step_str) for value = num/den hundredths:
\* (v // step) * step, quantized and formatted with the step's decimals.
floor_to_step_str(num, den, step) ==
    LET n == TruncDiv(num, den * step.units) * step.units
    IN  [val |-> QuantizeHalfEven(n, step.dec), dec |-> step.dec]

----------------------------------------------------------------------------
(* Records *)

Call(op, by, sym) == [op |-> op, by |-> by, sym |-> sym]

\* what step 2 of a cleanup run did; the balances, quantity and price it read are
\* kept when it sent the debt-covering buy
NoS2 == [outcome |-> "none", bought |-> FALSE, borrowed |-> 0, free |-> 0, quote |-> 0,
         qty |-> 0, price |-> 0]

NoRun == [active |-> FALSE, sym |-> "", ret |-> "", calls |-> <<>>, failed |-> {},
          s2 |-> NoS2]

NewRun(sym, ret) == [active |-> TRUE, sym |-> sym, ret |-> ret, calls |-> <<>>,
                     failed |-> {}, s2 |-> NoS2]

NoEnt == [active |-> FALSE, side |-> "", riskIn |-> Absent, resolved |-> FALSE,
          risk |-> 0, balance |-> 0, price |-> 0, sized |-> 0, sellQty |-> 0,
          result |-> "", execQty |-> 0, entryPrice |-> 0, slIn |-> Absent,
          tpIn |-> Absent]

NoBrk == [active |-> FALSE, sl |-> 0, tp |-> 0, qty |-> 0, stopLimit |-> 0,
          outcome |-> ""]

NoData == [json |-> "none", symbol |-> "", side |-> "", risk |-> Absent,
           keyOK |-> TRUE, sl |-> Absent, tp |-> Absent]

\* The payloads a request can carry.  A payload does not change while it is
\* handled; `data` shows a field's value from the point where the handler first
\* uses it: side is "present" until the dispatch on it (line 742), the optional
\* risk_pct, sl and tp are Absent until resolve_risk_pct and lines 355-357.
Payloads ==
    { [NoData EXCEPT !.json = "ok", !.symbol = sy, !.side = si, !.keyOK = k] :
        sy \in {"", "BTC"}, si \in {"", "present"}, k \in BOOLEAN }
    \cup { [NoData EXCEPT !.json = "invalid"], [NoData EXCEPT !.json = "empty"] }

\* an asset of the snapshot holds a free balance, or a debt with nothing free
Snapshots == [Assets -> {[free |-> 50, borrowed |-> 0], [free |-> 0, borrowed |-> 30]}]

\* executed: how many times the exchange carried out the request of this call
IdleRc == [state |-> "idle", method |-> "GET", i |-> 0, attempts |-> <<>>,
           executed |-> 0]

\* the threads of the server (app.run serves each request on its own thread)
Threads == {1, 2}

IdleThread == [pc |-> "idle", which |-> 1, ret |-> TRUE, sawLow |-> FALSE,
               entered |-> FALSE]

IdleThr == [t \in Threads |-> IdleThread]

NoQ == [val |-> 0, dec |-> 0]

IdleFq == [state |-> "idle", num |-> 0, den |-> 1, step |-> [units |-> 1, dec |-> 2],
           q |-> NoQ, qq |-> NoQ]

----------------------------------------------------------------------------
(* Risk resolution and the risk monitor *)

\* resolve_risk_pct without the cap of the margin monitor
resolve_risk_pct_uncapped(risk, maxRisk) ==
    IF risk = Absent \/ risk = Invalid THEN DEFAULT_RISK_PCT ELSE risk

\* resolve_risk_pct: the webhook's risk_pct when present and numeric, else the
\* default, capped by the margin monitor's maximum
resolve_risk_pct(risk, maxRisk) ==
    LET risk_pct == IF risk = Absent \/ risk = Invalid THEN DEFAULT_RISK_PCT ELSE risk
    IN  Min(risk_pct, maxRisk)

\* check_margin_level whose Danger branch leaves TRADING_BLOCKED as it was
RiskAfterDangerOpen(h, blocked, maxRisk) ==
    IF h < H_low THEN
        [blocked |-> TRUE, maxRisk |-> maxRisk, ret |-> FALSE, recovered |-> FALSE,
         liquidate |-> TRUE]
    ELSE IF h < H_high THEN
        [blocked |-> blocked, maxRisk |-> IF h < H_mid THEN maxRisk ELSE REDUCED_RISK_PCT,
         ret |-> TRUE, recovered |-> FALSE, liquidate |-> FALSE]
    ELSE
        [blocked |-> FALSE, maxRisk |-> DEFAULT_RISK_PCT, ret |-> TRUE,
         recovered |-> blocked, liquidate |-> FALSE]

\* check_margin_level after a successful read of marginLevel = h:
\* the new globals, the return value, the "recovered" log and whether clear() runs
RiskAfter(h, blocked, maxRisk) ==
    IF h < H_low THEN
        [blocked |-> TRUE, maxRisk |-> maxRisk, ret |-> FALSE, recovered |-> FALSE,
         liquidate |-> TRUE]
    ELSE IF h < H_mid THEN
        [blocked |-> TRUE, maxRisk |-> maxRisk, ret |-> TRUE, recovered |-> FALSE,
         liquidate |-> FALSE]
    ELSE IF h < H_high THEN
        [blocked |-> blocked, maxRisk |-> REDUCED_RISK_PCT, ret |-> TRUE,
         recovered |-> FALSE, liquidate |-> FALSE]
    ELSE
        [blocked |-> FALSE, maxRisk |-> DEFAULT_RISK_PCT, ret |-> TRUE,
         recovered |-> blocked, liquidate |-> FALSE]

\* webhook(): payload checks before the trading path
WebhookValidate(d) ==
    IF d.json = "invalid" THEN [pc |-> "done", response |-> "400_invalid_json"]
    ELSE IF d.json = "empty" THEN [pc |-> "done", response |-> "400_empty"]
    ELSE IF d.symbol = "" \/ d.side = "" THEN [pc |-> "done", response |-> "400_missing"]
    ELSE IF ~d.keyOK THEN [pc |-> "done", response |-> "403"]
    ELSE [pc |-> "check", response |-> ""]

\* webhook(): what follows each of its two check_margin_level calls
AfterCheck(which, ret, blocked, side) ==
    IF which = 1 THEN
        IF ~ret THEN [pc |-> "done", response |-> "blocked_critical"]
        ELSE IF blocked THEN [pc |-> "done", response |-> "blocked_protection"]
        ELSE [pc |-> "cancel", response |-> ""]
    ELSE
        IF blocked THEN [pc |-> "done", response |-> "blocked_by_margin"]
        ELSE IF side = "BUY" THEN [pc |-> "long", response |-> ""]
        ELSE IF side = "SELL" THEN [pc |-> "short", response |-> ""]
        ELSE [pc |-> "done", response |-> "400_invalid_side"]

\* clear(): the assets its loop passes over
ClearSkips(asset, free) == asset = "USDC" \/ free <= 0

----------------------------------------------------------------------------
(* Initial state *)

InitWeb ==
    /\ TRADING_BLOCKED = FALSE
    /\ MARGIN_MAX_RISK_PCT = DEFAULT_RISK_PCT
    /\ pc = "idle"
    /\ data = NoData
    /\ response = ""
    /\ calls = <<>>
    /\ didRead = FALSE
    /\ chk = 1
    /\ lastH = Absent
    /\ sawLow = FALSE
    /\ checked = FALSE
    /\ prevLow = FALSE
    /\ recovered = FALSE
    /\ clearAcct = [a \in Assets |-> [free |-> 0, borrowed |-> 0]]
    /\ clearQueue = <<>>
    /\ cleared = <<>>
    /\ run = NoRun
    /\ ent = NoEnt
    /\ brk = NoBrk

Init ==
    /\ InitWeb
    /\ DRY_RUN \in BOOLEAN
    /\ exchangeInfo \in (IF DRY_RUN THEN DryRunLots ELSE Lots)
    /\ RETRY_AMOUNT = RETRY_DEFAULT
    /\ rc = IdleRc
    /\ fq = IdleFq
    /\ thr = IdleThr

----------------------------------------------------------------------------
(* webhook(): reception and the margin checks *)

Goto(t, side) ==
    /\ pc' = t.pc
    /\ response' = t.response
    /\ run' = IF t.pc = "cancel" THEN NewRun(data.symbol, "webhook") ELSE NoRun
    /\ data' = IF t.pc \in {"long", "short"} \/ t.response = "400_invalid_side"
               THEN [data EXCEPT !.side = side] ELSE data

Receive ==
    /\ pc \in {"idle", "done"}
    /\ \E d \in Payloads :
        /\ data' = d
        /\ pc' = WebhookValidate(d).pc
        /\ response' = WebhookValidate(d).response
    /\ calls' = <<>>
    /\ didRead' = FALSE
    /\ sawLow' = FALSE
    /\ checked' = FALSE
    /\ prevLow' = FALSE
    /\ recovered' = FALSE
    /\ chk' = 1
    /\ run' = NoRun
    /\ ent' = NoEnt
    /\ brk' = NoBrk
    /\ UNCHANGED <<cfgVars, TRADING_BLOCKED, MARGIN_MAX_RISK_PCT, lastH, clearVars, fnVars>>

CheckMarginLevel ==
    /\ pc = "check"
    /\ didRead' = TRUE
    /\ \E ok \in BOOLEAN, side \in Sides :
        IF ~ok THEN
            \* get_margin_account raised: caught, returns True
            /\ Goto(AfterCheck(chk, TRUE, TRADING_BLOCKED, side), side)
            /\ UNCHANGED <<riskVars, clearVars>>
        ELSE
            \E h \in Ratios :
                LET r == RiskAfter(h, TRADING_BLOCKED, MARGIN_MAX_RISK_PCT) IN
                /\ TRADING_BLOCKED' = r.blocked
                /\ MARGIN_MAX_RISK_PCT' = r.maxRisk
                /\ lastH' = h
                /\ sawLow' = (sawLow \/ h < H_mid)
                /\ checked' = TRUE
                /\ prevLow' = (lastH # Absent /\ lastH < H_mid)
                /\ recovered' = r.recovered
                /\ IF r.liquidate THEN
                       \* clear(): its own account read
                       \E ok2 \in BOOLEAN :
                           IF ~ok2 THEN
                               /\ Goto(AfterCheck(chk, TRUE, r.blocked, side), side)
                               /\ UNCHANGED clearVars
                           ELSE
                               \E snap \in Snapshots :
                                   /\ pc' = "clear"
                                   /\ clearAcct' = snap
                                   /\ clearQueue' = AssetOrder
                                   /\ cleared' = <<>>
                                   /\ UNCHANGED <<response, run, data>>
                   ELSE
                       /\ Goto(AfterCheck(chk, r.ret, r.blocked, side), side)
                       /\ UNCHANGED clearVars
    /\ UNCHANGED <<cfgVars, calls, chk, ent, brk, fnVars>>

\* clear(): one iteration of its loop, or its return into check_margin_level,
\* which then returns False
ClearNext ==
    /\ pc = "clear"
    /\ clearQueue # <<>>
    /\ LET a == Head(clearQueue)
           free == IF a = "USDC" THEN 0 ELSE clearAcct[a].free
       IN  /\ clearQueue' = Tail(clearQueue)
           /\ IF ClearSkips(a, free) THEN
                  /\ pc' = "clear"
                  /\ run' = NoRun
              ELSE
                  /\ pc' = "cancel"
                  /\ run' = NewRun(a, "clear")
    /\ UNCHANGED <<cfgVars, riskVars, clearAcct, cleared, data, response, calls,
                   didRead, chk, ent, brk, fnVars>>

ClearReturn ==
    /\ pc = "clear"
    /\ clearQueue = <<>>
    /\ \E side \in Sides : Goto(AfterCheck(chk, FALSE, TRADING_BLOCKED, side), side)
    /\ clearAcct' = [a \in Assets |-> [free |-> 0, borrowed |-> 0]]
    /\ cleared' = <<>>
    /\ UNCHANGED <<cfgVars, riskVars, clearQueue, calls, didRead, chk, ent, brk, fnVars>>

----------------------------------------------------------------------------
(* handle_pre_trade_cleanup *)

\* step 1 without its try/except: a failed cancellation leaves the function
AfterCancelRaising(ok) == IF ok THEN "repay" ELSE "raise"

\* step 1: what follows the cancellation, whether it succeeded or raised
AfterCancel(ok) == "repay"

\* step 2: quantity of the debt-covering buy, missing * BUFFER floored to stepSize
DebtBuyQty(borrowed, free_base, step) ==
    floor_to_step_str((borrowed - free_base) * BUFFER, 100, step)

\* step 2 without the minNotional check of line 246
DebtBuyOutcomeNoNotional(qty, price, minNotional, free_usdc) ==
    IF qty * price > free_usdc * 100 THEN "refused_usdc" ELSE "buy"

\* step 2: the checks between the price read and the buy order
\* (qty, price, minNotional, free_usdc in hundredths)
DebtBuyOutcome(qty, price, minNotional, free_usdc) ==
    IF qty * price < minNotional * 100 THEN "refused_notional"
    ELSE IF qty * price > free_usdc * 100 THEN "refused_usdc"
    ELSE "buy"

\* step 2: the outcomes that are exceptions, caught at the end of the step
\* ("raised": a request of the step failed after its retries)
Step2Raises == {"raised", "refused_zero", "refused_notional", "refused_usdc",
                "buy_failed"}

\* step 2: where the function goes next (return when the asset is not in the
\* account, step 3 otherwise, also after a caught exception)
AfterRepay(outcome) ==
    IF outcome = "no_asset" THEN "cleanup_ret"
    ELSE IF outcome \in {"debt", "bought"} THEN "refresh"
    ELSE "sell"

\* step 3: quantity of the residual sell
ResidualQty(free, step) == floor_to_step_str(free, 1, step)

OpsOf(cs) == [i \in 1..Len(cs) |-> cs[i].op]

CleanupCancel ==
    /\ pc = "cancel"
    /\ \E ok \in BOOLEAN :
        /\ calls' = Append(calls, Call("cancel", "cleanup", run.sym))
        /\ run' = [run EXCEPT !.calls = Append(@, "cancel"),
                              !.failed = IF ok THEN @ ELSE @ \cup {1}]
        /\ IF AfterCancel(ok) = "raise" THEN pc' = "done" /\ response' = "500"
           ELSE pc' = AfterCancel(ok) /\ response' = response
    /\ UNCHANGED <<cfgVars, riskVars, clearVars, data, didRead, chk, ent, brk, fnVars>>

Step2End(outcome, cs, obs) ==
    /\ calls' = calls \o cs
    /\ run' = [run EXCEPT !.calls = @ \o OpsOf(cs),
                          !.failed = IF outcome \in Step2Raises THEN @ \cup {2} ELSE @,
                          !.s2 = [obs EXCEPT !.outcome = outcome]]
    /\ pc' = AfterRepay(outcome)

\* lines 229-257: buy what is missing to cover the debt
Step2Buy(borrowed, free_base, free_usdc) ==
    \E lotOk \in BOOLEAN :
        IF ~lotOk THEN Step2End("raised", <<>>, NoS2)
        ELSE
            LET qty == DebtBuyQty(borrowed, free_base, exchangeInfo.stepSize) IN
            IF qty.val <= 0 THEN Step2End("refused_zero", <<>>, NoS2)
            ELSE \E priceOk \in BOOLEAN :
                IF ~priceOk THEN Step2End("raised", <<>>, NoS2)
                ELSE \E price_est \in Prices :
                    LET d == DebtBuyOutcome(qty.val, price_est, exchangeInfo.minNotional,
                                            free_usdc)
                        obs == [NoS2 EXCEPT !.bought = TRUE, !.borrowed = borrowed,
                                            !.free = free_base, !.quote = free_usdc,
                                            !.qty = qty.val, !.price = price_est]
                    IN  IF d # "buy" THEN Step2End(d, <<>>, NoS2)
                        ELSE \E ok \in BOOLEAN :
                            Step2End(IF ok THEN "bought" ELSE "buy_failed",
                                     <<Call("order_BUY", "cleanup", run.sym)>>, obs)

\* lines 206-257: read the account; when there is debt, buy what is missing
CleanupRepay ==
    /\ pc = "repay"
    /\ didRead' = TRUE
    /\ \E acctOk \in BOOLEAN :
        IF ~acctOk THEN Step2End("raised", <<>>, NoS2)
        ELSE \E present \in BOOLEAN :
            IF ~present THEN Step2End("no_asset", <<>>, NoS2)
            ELSE \E borrowed \in Borroweds, free_base \in Frees, free_usdc \in QuoteFrees :
                IF borrowed <= 0 THEN Step2End("no_debt", <<>>, NoS2)
                ELSE IF borrowed - free_base > 0 THEN
                    Step2Buy(borrowed, free_base, free_usdc)
                ELSE Step2End("debt", <<>>, NoS2)
    /\ UNCHANGED <<cfgVars, riskVars, clearVars, data, response, chk, ent, brk, fnVars>>

\* lines 259-282: re-read the balances and repay min(borrowed, free)
CleanupRefresh ==
    /\ pc = "refresh"
    /\ \E acctOk \in BOOLEAN :
        IF ~acctOk THEN Step2End("raised", <<>>, NoS2)
        ELSE \E borrowed \in Borroweds, free_base \in Frees :
            LET repay_amount == Min(borrowed, free_base) IN
            IF repay_amount > 0 THEN
                \E ok \in BOOLEAN :
                    Step2End(IF ok THEN "repaid" ELSE "raised",
                             <<Call("repay", "cleanup", run.sym)>>, NoS2)
            ELSE Step2End("nothing_to_repay", <<>>, NoS2)
    /\ UNCHANGED <<cfgVars, riskVars, clearVars, data, response, didRead, chk, ent, brk,
                   fnVars>>

Step3End(cs, raised) ==
    /\ calls' = calls \o cs
    /\ run' = [run EXCEPT !.calls = @ \o OpsOf(cs),
                          !.failed = IF raised THEN @ \cup {3} ELSE @]
    /\ pc' = "cleanup_ret"

CleanupSell ==
    /\ pc = "sell"
    /\ didRead' = TRUE
    /\ \E lotOk \in BOOLEAN :
        IF ~lotOk THEN Step3End(<<>>, TRUE)
        ELSE \E acctOk \in BOOLEAN :
            IF ~acctOk THEN Step3End(<<>>, TRUE)
            ELSE \E present \in BOOLEAN :
                IF ~present THEN Step3End(<<>>, FALSE)
                ELSE \E free \in Frees :
                    LET qty == ResidualQty(free, exchangeInfo.stepSize) IN
                    IF free <= 0 \/ qty.val <= 0 THEN Step3End(<<>>, FALSE)
                    ELSE \E ok \in BOOLEAN :
                        Step3End(<<Call("order_SELL", "cleanup", run.sym)>>, ~ok)
    /\ UNCHANGED <<cfgVars, riskVars, clearVars, data, response, chk, ent, brk, fnVars>>

\* return of handle_pre_trade_cleanup: into webhook() before its second margin
\* check, or into the loop of clear()
CleanupReturn ==
    /\ pc = "cleanup_ret"
    /\ IF run.ret = "webhook" THEN
           pc' = "check" /\ chk' = 2 /\ cleared' = cleared
       ELSE
           pc' = "clear" /\ chk' = chk /\ cleared' = Append(cleared, run.sym)
    /\ run' = NoRun
    /\ UNCHANGED <<cfgVars, riskVars, clearAcct, clearQueue, data, response, calls, didRead,
                   ent, brk, fnVars>>

----------------------------------------------------------------------------
(* execute_long_margin / execute_short_margin *)

\* what the order report says was executed: nothing, or a filled quantity at an
\* average price
Fills == { [qty |-> 0, price |-> 0], [qty |-> 200, price |-> 10000] }

\* amounts a loan response may report (Absent: the response names no amount)
LoanAmounts == {Absent, 1}

\* long: quoteOrderQty = balance * risk floored to tickSize (line 327)
LongQuoteQty(balance_usdc, risk_pct, lot) ==
    floor_to_step_str(balance_usdc * risk_pct, 100, lot.tickSize)

\* short: raw quantity balance * risk / price, quantized ROUND_DOWN to the
\* exponent of stepSize (lines 379-380)
ShortBorrowAmount(balance_usdc, risk_pct, price_est, lot) ==
    LET u == Pow10(2 - lot.stepSize.dec)
    IN  TruncDiv(balance_usdc * risk_pct, price_est * u) * u

\* short: the checks between sizing and the borrow (lines 382-390)
ShortSizing(borrow_amount, price_est, lot) ==
    IF borrow_amount <= 0 \/ borrow_amount < lot.minQty THEN "qty_too_small"
    ELSE IF borrow_amount * price_est < lot.minNotional * 100 THEN "notional_too_small"
    ELSE "ok"

\* short: the check between the borrow and the sell order (line 407)
ShortSellCheck(qty, lot) == IF qty < lot.minQty THEN "borrowed_qty_too_small" ELSE "ok"

\* an entry function that goes on to the bracket whenever it sent an order,
\* also when the order raised
EntryEndBracketAnyway(e, cs, to) ==
    /\ ent' = e
    /\ data' = [data EXCEPT !.risk = e.riskIn, !.sl = e.slIn, !.tp = e.tpIn]
    /\ calls' = calls \o cs
    /\ pc' = IF cs # <<>> THEN "bracket" ELSE to
    /\ response' = IF cs # <<>> \/ to = "bracket" THEN response
                   ELSE IF e.result = "raised" THEN "500" ELSE "ok"

\* the entry functions end: by an exception (Flask answers 500), by a return
\* without a position, or by going on to place_sl_tp_margin
EntryEnd(e, cs, to) ==
    /\ ent' = e
    /\ data' = [data EXCEPT !.risk = e.riskIn, !.sl = e.slIn, !.tp = e.tpIn]
    /\ calls' = calls \o cs
    /\ pc' = to
    /\ response' = IF to = "bracket" THEN response
                   ELSE IF e.result = "raised" THEN "500" ELSE "ok"

\* lines 335-360 and 420-445: read the fills of the order report
EntryFilled(e, cs) ==
    \E fill \in Fills :
        LET f == [e EXCEPT !.result = "order", !.execQty = fill.qty,
                           !.entryPrice = fill.price]
        IN  IF fill.qty > 0 /\ fill.price > 0 THEN
                \E o \in Overrides :
                    EntryEnd([f EXCEPT !.slIn = o.sl, !.tpIn = o.tp], cs, "bracket")
            ELSE EntryEnd(f, cs, "done")

ExecuteLong ==
    /\ pc = "long"
    /\ didRead' = TRUE
    /\ LET e0 == [NoEnt EXCEPT !.active = TRUE, !.side = "BUY"] IN
       \E lotOk \in BOOLEAN :
        IF ~lotOk THEN EntryEnd([e0 EXCEPT !.result = "raised"], <<>>, "done")
        ELSE \E balOk \in BOOLEAN :
            IF ~DRY_RUN /\ ~balOk THEN
                EntryEnd([e0 EXCEPT !.result = "raised"], <<>>, "done")
            ELSE \E balance_usdc \in (IF DRY_RUN THEN {DRY_RUN_BALANCE} ELSE Balances),
                    risk_in \in RiskInputs :
                LET risk_pct == resolve_risk_pct(risk_in, MARGIN_MAX_RISK_PCT)
                    quote == LongQuoteQty(balance_usdc, risk_pct, exchangeInfo)
                    e1 == [e0 EXCEPT !.riskIn = risk_in, !.resolved = TRUE,
                                     !.risk = risk_pct, !.balance = balance_usdc,
                                     !.sized = quote.val]
                IN  IF DRY_RUN THEN
                        EntryEnd([e1 EXCEPT !.result = "dry_run"], <<>>, "done")
                    ELSE \E ok \in BOOLEAN :
                        LET c == <<Call("order_BUY", "entry", data.symbol)>> IN
                        IF ok THEN EntryFilled(e1, c)
                        ELSE EntryEnd([e1 EXCEPT !.result = "raised"], c, "done")
    /\ run' = NoRun
    /\ UNCHANGED <<cfgVars, riskVars, clearVars, chk, brk, fnVars>>

\* lines 392-445: borrow, then sell what was borrowed
ShortBorrowAndSell(e2, borrow_amount) ==
    \E ok \in BOOLEAN, amt \in LoanAmounts :
        LET loan == IF DRY_RUN THEN <<>>
                    ELSE <<Call("loan", "entry", data.symbol)>>
        IN  IF ~DRY_RUN /\ ~ok THEN EntryEnd([e2 EXCEPT !.result = "raised"], loan, "done")
            ELSE
                LET borrowed_qty == IF DRY_RUN \/ amt = Absent THEN borrow_amount ELSE amt
                    qty == floor_to_step_str(borrowed_qty, 1, exchangeInfo.stepSize)
                    e3 == [e2 EXCEPT !.sellQty = qty.val]
                IN  IF ShortSellCheck(qty.val, exchangeInfo) # "ok" THEN
                        EntryEnd([e3 EXCEPT !.result = "borrowed_qty_too_small"], loan,
                                 "done")
                    ELSE IF DRY_RUN THEN
                        EntryEnd([e3 EXCEPT !.result = "dry_run"], loan, "done")
                    ELSE \E ok2 \in BOOLEAN :
                        LET c == Append(loan, Call("order_SELL", "entry", data.symbol))
                        IN  IF ok2 THEN EntryFilled(e3, c)
                            ELSE EntryEnd([e3 EXCEPT !.result = "raised"], c, "done")

ExecuteShort ==
    /\ pc = "short"
    /\ didRead' = TRUE
    /\ LET e0 == [NoEnt EXCEPT !.active = TRUE, !.side = "SELL"] IN
       \E lotOk \in BOOLEAN :
        IF ~lotOk THEN EntryEnd([e0 EXCEPT !.result = "raised"], <<>>, "done")
        ELSE \E balOk \in BOOLEAN :
            IF ~DRY_RUN /\ ~balOk THEN
                EntryEnd([e0 EXCEPT !.result = "raised"], <<>>, "done")
            ELSE \E balance_usdc \in (IF DRY_RUN THEN {DRY_RUN_BALANCE} ELSE Balances),
                    priceOk \in BOOLEAN :
                LET e1 == [e0 EXCEPT !.balance = balance_usdc] IN
                IF ~priceOk THEN
                    EntryEnd([e1 EXCEPT !.result = "price_fetch_failed"], <<>>, "done")
                ELSE \E price_est \in Prices, risk_in \in RiskInputs :
                    IF price_est <= 0 THEN
                        EntryEnd([e1 EXCEPT !.result = "invalid_price_est"], <<>>, "done")
                    ELSE
                        LET risk_pct == resolve_risk_pct(risk_in, MARGIN_MAX_RISK_PCT)
                            borrow_amount == ShortBorrowAmount(balance_usdc, risk_pct,
                                                               price_est, exchangeInfo)
                            e2 == [e1 EXCEPT !.riskIn = risk_in, !.resolved = TRUE,
                                             !.risk = risk_pct, !.price = price_est,
                                             !.sized = borrow_amount]
                            z == ShortSizing(borrow_amount, price_est, exchangeInfo)
                        IN  IF z # "ok" THEN
                                EntryEnd([e2 EXCEPT !.result = z], <<>>, "done")
                            ELSE ShortBorrowAndSell(e2, borrow_amount)
    /\ run' = NoRun
    /\ UNCHANGED <<cfgVars, riskVars, clearVars, chk, brk, fnVars>>

----------------------------------------------------------------------------
(* place_sl_tp_margin *)

\* format_price_to_tick: Decimal.quantize of price = num/den hundredths to the
\* exponent of tickSize, rounding toward zero (ROUND_DOWN) or away from it
format_price_to_tick(num, den, tick, rounding) ==
    LET u == Pow10(2 - tick.dec)
        q == TruncDiv(num, den * u)
        exact == (q * den * u = num)
        val == IF rounding = "ROUND_DOWN" \/ exact THEN q * u
               ELSE IF num > 0 THEN (q + 1) * u ELSE (q - 1) * u
    IN  [val |-> val, dec |-> tick.dec]

\* digit k (0-based) of the text after the last '.' of a decimal string
StrDigit(step, k) ==
    IF step.dec > 0 THEN (step.units \div Pow10(1 - k)) % 10
    ELSE LET n == step.units \div 100
             len == IF n >= 100 THEN 3 ELSE IF n >= 10 THEN 2 ELSE 1
         IN  (n \div Pow10(len - 1 - k)) % 10

StrLen(step) ==
    IF step.dec > 0 THEN step.dec
    ELSE LET n == step.units \div 100 IN IF n >= 100 THEN 3 ELSE IF n >= 10 THEN 2 ELSE 1

\* tickSize_str.split('.')[-1].find('1')
Find1(step) ==
    LET hits == {k \in 0..(StrLen(step) - 1) : StrDigit(step, k) = 1}
    IN  IF hits = {} THEN 0 - 1
        ELSE CHOOSE k \in hits : \A j \in hits : k <= j

\* lines 453-466: raw stop-loss and take-profit prices as num/den hundredths
RawStop(side, entry_price, sl_override) ==
    IF sl_override # Absent THEN [num |-> sl_override, den |-> 1]
    ELSE IF side = "BUY" THEN [num |-> entry_price * STOP_LOSS_PCT, den |-> 100]
    ELSE [num |-> entry_price * 100, den |-> STOP_LOSS_PCT]

RawTake(side, entry_price, tp_override) ==
    IF tp_override # Absent THEN [num |-> tp_override, den |-> 1]
    ELSE IF side = "BUY" THEN [num |-> entry_price * TAKE_PROFIT_PCT, den |-> 100]
    ELSE [num |-> entry_price * 100, den |-> TAKE_PROFIT_PCT]

\* the stop rounded in the direction of the take-profit
SlRoundingFavourable(side) == IF side = "BUY" THEN "ROUND_UP" ELSE "ROUND_DOWN"

SlRounding(side) == IF side = "BUY" THEN "ROUND_DOWN" ELSE "ROUND_UP"
TpRounding(side) == IF side = "BUY" THEN "ROUND_UP" ELSE "ROUND_DOWN"

\* lines 482-489: one leg of the validation loop
LegValid(price, qty, lot) ==
    /\ ~(price <= 0 \/ price < lot.tickSize.units)
    /\ ~(price * qty < lot.minNotional * 100)

\* lines 475-489: the loop returns False at the first leg that fails
BracketValid(sl, tp, qty, lot) == LegValid(sl, qty, lot) /\ LegValid(tp, qty, lot)

\* lines 492-495: stopLimitPrice; ok is FALSE when the format specification is
\* malformed (find returned -1) and the f-string raises
StopLimitPrice(sl, side, tick) ==
    LET k == IF side = "BUY" THEN 999 ELSE 1001
        aligned == ((sl * k) \div (1000 * tick.units)) * tick.units
        decimals == Find1(tick)
    IN  IF decimals < 0 THEN [ok |-> FALSE, val |-> 0, dec |-> decimals]
        ELSE [ok |-> TRUE, val |-> QuantizeHalfEven(aligned, decimals), dec |-> decimals]

\* lines 360, 445 and 749: what webhook() answers after an entry function
\* returned; the value place_sl_tp_margin returned is not part of it
WebhookReply(e, b) == [status |-> "ok", result |-> e.result]

PlaceSlTp ==
    /\ pc = "bracket"
    /\ LET lot == exchangeInfo
           oco_side == IF ent.side = "BUY" THEN "SELL" ELSE "BUY"
           rs == RawStop(ent.side, ent.entryPrice, data.sl)
           rt == RawTake(ent.side, ent.entryPrice, data.tp)
           sl == format_price_to_tick(rs.num, rs.den, lot.tickSize, SlRounding(ent.side))
           tp == format_price_to_tick(rt.num, rt.den, lot.tickSize, TpRounding(ent.side))
           qty == floor_to_step_str(ent.execQty * COMMISSION_BUFFER, 1000, lot.stepSize)
           b0 == [NoBrk EXCEPT !.active = TRUE, !.sl = sl.val, !.tp = tp.val,
                               !.qty = qty.val]
       IN  IF ~BracketValid(sl.val, tp.val, qty.val, lot) THEN
               /\ brk' = [b0 EXCEPT !.outcome = "invalid_leg"]
               /\ calls' = calls
           ELSE
               LET stop == StopLimitPrice(sl.val, ent.side, lot.tickSize) IN
               IF ~stop.ok THEN
                   /\ brk' = [b0 EXCEPT !.outcome = "raised"]
                   /\ calls' = calls
               ELSE \E ok \in BOOLEAN :
                   /\ brk' = [b0 EXCEPT !.stopLimit = stop.val,
                                        !.outcome = IF ok THEN "oco_placed"
                                                    ELSE "oco_failed"]
                   /\ calls' = Append(calls, Call("oco_" \o oco_side, "bracket", data.symbol))
    /\ pc' = "done"
    /\ response' = "ok"
    /\ UNCHANGED <<cfgVars, riskVars, clearVars, data, didRead, chk, run, ent, fnVars>>

----------------------------------------------------------------------------
(* _request_with_retries *)

\* what one requests.request attempt can give
Responses == {"200", "204", "400", "500", "timeout"}

\* line 63: the response the loop returns on
IsSuccess(r) == r = "200"

\* a loop that runs once more than range(RETRY_AMOUNT)
MoreAttemptsInclusive(i, retry) == i <= retry

\* line 60: for i in range(RETRY_AMOUNT)
MoreAttempts(i, retry) == i < retry

\* line 33: RETRY_AMOUNT = max(0, min(RETRY_AMOUNT, 5))
ClampRetry(n) == IF n > RETRY_CLAMP THEN RETRY_CLAMP ELSE IF n < 0 THEN 0 ELSE n

\* the callers' methods: reads are GET, orders, loans and repays are POST
Methods == {"GET", "POST"}

\* what the exchange did with a request it answered with r: a 2xx answer means
\* it carried the request out, a 4xx that it refused it; after a 5xx or without
\* an answer the request may or may not have been carried out
ExchangeOutcomes(r) ==
    IF r \in {"200", "204"} THEN {TRUE}
    ELSE IF r = "400" THEN {FALSE}
    ELSE BOOLEAN

ClientCall ==
    /\ rc.state \in {"idle", "returned", "raised"}
    /\ \E method \in Methods :
        rc' = [state |-> "loop", method |-> method, i |-> 0, attempts |-> <<>>,
               executed |-> 0]
    /\ UNCHANGED <<webVars, fq, thr>>

ClientAttempt ==
    /\ rc.state = "loop"
    /\ MoreAttempts(rc.i, RETRY_AMOUNT)
    /\ \E r \in Responses : \E done \in ExchangeOutcomes(r) :
        rc' = [rc EXCEPT !.state = IF IsSuccess(r) THEN "returned" ELSE "loop",
                         !.i = IF IsSuccess(r) THEN @ ELSE @ + 1,
                         !.attempts = Append(@, r),
                         !.executed = IF done THEN @ + 1 ELSE @]
    /\ UNCHANGED <<webVars, fq, thr>>

ClientRaise ==
    /\ rc.state = "loop"
    /\ ~MoreAttempts(rc.i, RETRY_AMOUNT)
    /\ rc' = [rc EXCEPT !.state = "raised"]
    /\ UNCHANGED <<webVars, fq, thr>>

----------------------------------------------------------------------------
(* Specifications *)

Next ==
    \/ Receive
    \/ CheckMarginLevel
    \/ ClearNext
    \/ ClearReturn
    \/ CleanupCancel
    \/ CleanupRepay
    \/ CleanupRefresh
    \/ CleanupSell
    \/ CleanupReturn
    \/ ExecuteLong
    \/ ExecuteShort
    \/ PlaceSlTp

Spec == Init /\ [][Next]_vars

InitClient ==
    /\ InitWeb
    /\ DRY_RUN = FALSE
    /\ exchangeInfo = CHOOSE l \in Lots : l.minNotional = 0
    /\ RETRY_AMOUNT \in {ClampRetry(n) : n \in 0..MaxEnvRetry}
    /\ rc = IdleRc
    /\ fq = IdleFq
    /\ thr = IdleThr

NextClient == ClientCall \/ ClientAttempt \/ ClientRaise

SpecClient == InitClient /\ [][NextClient]_vars

----------------------------------------------------------------------------
(* floor_to_step_str on its own *)

\* step strings: "0.01", "0.05", "0.10", "0.25", "0.1", "1"
Steps == { [units |-> 1, dec |-> 2], [units |-> 5, dec |-> 2], [units |-> 10, dec |-> 2],
           [units |-> 25, dec |-> 2], [units |-> 10, dec |-> 1], [units |-> 100, dec |-> 0] }

\* a value is num/den hundredths: den 1 for two decimals, more for finer values
Dens == {1, 3, 10}

\* floor_to_step_str(value, step_str)
QuantizeCall ==
    /\ \E num \in 0..MaxValue, den \in Dens, step \in Steps :
        fq' = [state |-> "once", num |-> num, den |-> den, step |-> step,
               q |-> floor_to_step_str(num, den, step), qq |-> NoQ]
    /\ UNCHANGED <<webVars, rc, thr>>

\* floor_to_step_str(float(q), step_str) on the string the first call returned
QuantizeAgain ==
    /\ fq.state = "once"
    /\ fq' = [fq EXCEPT !.state = "twice",
                        !.qq = floor_to_step_str(fq.q.val, 1, fq.step)]
    /\ UNCHANGED <<webVars, rc, thr>>

InitQuantize ==
    /\ InitWeb
    /\ DRY_RUN = FALSE
    /\ exchangeInfo = CHOOSE l \in Lots : l.minNotional = 0
    /\ RETRY_AMOUNT = RETRY_DEFAULT
    /\ rc = IdleRc
    /\ fq = IdleFq
    /\ thr = IdleThr

NextQuantize == QuantizeCall \/ QuantizeAgain

SpecQuantize == InitQuantize /\ [][NextQuantize]_vars

----------------------------------------------------------------------------
(* webhook() on concurrent threads: the trading path as far as it reads and
   writes TRADING_BLOCKED and MARGIN_MAX_RISK_PCT.  A successful
   check_margin_level is one step; the test of its result in webhook() is
   another, so that other threads can run between the two. *)

seqVars == <<cfgVars, lastH, sawLow, checked, prevLow, recovered, clearVars, reqVars,
             rc, fq>>

\* lines 713-724: a trading signal with valid fields arrives
ThreadReceive(t) ==
    /\ thr[t].pc \in {"idle", "done"}
    /\ thr' = [thr EXCEPT ![t] = [IdleThread EXCEPT !.pc = "check"]]
    /\ UNCHANGED <<seqVars, TRADING_BLOCKED, MARGIN_MAX_RISK_PCT>>

\* check_margin_level up to its return, or up to its call of clear()
ThreadCheck(t) ==
    /\ thr[t].pc = "check"
    /\ \E ok \in BOOLEAN :
        IF ~ok THEN
            /\ thr' = [thr EXCEPT ![t].pc = "read", ![t].ret = TRUE]
            /\ UNCHANGED <<TRADING_BLOCKED, MARGIN_MAX_RISK_PCT>>
        ELSE
            \E h \in Ratios :
                LET r == RiskAfter(h, TRADING_BLOCKED, MARGIN_MAX_RISK_PCT) IN
                /\ TRADING_BLOCKED' = r.blocked
                /\ MARGIN_MAX_RISK_PCT' = r.maxRisk
                /\ thr' = [thr EXCEPT ![t].pc = IF r.liquidate THEN "clear" ELSE "read",
                                      ![t].ret = r.ret,
                                      ![t].sawLow = (@ \/ h < H_mid)]
    /\ UNCHANGED seqVars

\* lines 162-163 and 187-189: clear() returns and the check returns False, or
\* clear() raises and the check returns True
ThreadClear(t) ==
    /\ thr[t].pc = "clear"
    /\ \E ok \in BOOLEAN : thr' = [thr EXCEPT ![t].pc = "read", ![t].ret = ~ok]
    /\ UNCHANGED <<seqVars, TRADING_BLOCKED, MARGIN_MAX_RISK_PCT>>

\* lines 726-732 and 738-747: webhook() tests the check's result and
\* TRADING_BLOCKED as it is now
ThreadRead(t) ==
    /\ thr[t].pc = "read"
    /\ \E side \in Sides :
        LET a == AfterCheck(thr[t].which, thr[t].ret, TRADING_BLOCKED, side) IN
        thr' = [thr EXCEPT ![t].pc = IF a.pc = "cancel" THEN "cleanup"
                                     ELSE IF a.pc \in {"long", "short"} THEN "entry"
                                     ELSE "done"]
    /\ UNCHANGED <<seqVars, TRADING_BLOCKED, MARGIN_MAX_RISK_PCT>>

\* lines 734-736: handle_pre_trade_cleanup, then the second check
ThreadCleanup(t) ==
    /\ thr[t].pc = "cleanup"
    /\ thr' = [thr EXCEPT ![t].pc = "check", ![t].which = 2]
    /\ UNCHANGED <<seqVars, TRADING_BLOCKED, MARGIN_MAX_RISK_PCT>>

\* lines 742-745: the entry function; it sends its order unless one of its
\* reads raises first
ThreadEntry(t) ==
    /\ thr[t].pc = "entry"
    /\ \E sent \in BOOLEAN : thr' = [thr EXCEPT ![t].pc = "done", ![t].entered = sent]
    /\ UNCHANGED <<seqVars, TRADING_BLOCKED, MARGIN_MAX_RISK_PCT>>

InitThreads ==
    /\ InitWeb
    /\ DRY_RUN = FALSE
    /\ exchangeInfo = CHOOSE l \in Lots : l.minNotional = 0
    /\ RETRY_AMOUNT = RETRY_DEFAULT
    /\ rc = IdleRc
    /\ fq = IdleFq
    /\ thr = IdleThr

NextThreads ==
    \E t \in Threads :
        \/ ThreadReceive(t)
        \/ ThreadCheck(t)
        \/ ThreadClear(t)
        \/ ThreadRead(t)
        \/ ThreadCleanup(t)
        \/ ThreadEntry(t)

SpecThreads == InitThreads /\ [][NextThreads]_vars

----------------------------------------------------------------------------
(* Properties *)

Range(seq) == {seq[i] : i \in 1..Len(seq)}

EntryCallIssued == \E i \in 1..Len(calls) : calls[i].by = "entry"

\* the class of a ratio, by the thresholds of check_margin_level
ClassOf(h) ==
    IF h < H_low THEN "Critical"
    ELSE IF h < H_mid THEN "Danger"
    ELSE IF h < H_high THEN "Defensive"
    ELSE "Healthy"

\* C1: an entry whose sized order is zero, below minQty, or of notional below
\* minNotional issues no order and no borrow.  The sized order of a long is its
\* quoteOrderQty (an amount of quote asset, which is its notional); that of a
\* short is the quantity to borrow, valued at the price estimate.
C1_NoSubMinimumEntryCall ==
    EntryCallIssued =>
        /\ ent.sized > 0
        /\ ent.side = "BUY" => ent.sized >= exchangeInfo.minNotional
        /\ ent.side = "SELL" =>
            /\ ent.sized >= exchangeInfo.minQty
            /\ ent.sized * ent.price >= exchangeInfo.minNotional * 100

\* C2: when a margin check of the request read a ratio below 1.25, the request
\* issues no entry order and no entry borrow, and never enters an entry function.
C2_NoEntryAfterLowRatio ==
    sawLow =>
        /\ ~EntryCallIssued
        /\ ~ent.active
        /\ pc \notin {"long", "short", "bracket"}

\* the second margin check of a request, after its cleanup, read a low ratio and
\* the request was answered "blocked" without an entry
C2_Witness ==
    /\ sawLow
    /\ chk = 2
    /\ pc = "done"
    /\ response = "blocked_by_margin"
    /\ Call("cancel", "cleanup", data.symbol) \in Range(calls)

\* C3: after a successful check the risk state is a function of the ratio read:
\* Healthy gives not blocked and the default maximum, Defensive gives not blocked
\* and the reduced maximum.
C3_StateIsFunctionOfRatio ==
    lastH # Absent =>
        /\ ClassOf(lastH) = "Healthy" =>
            ~TRADING_BLOCKED /\ MARGIN_MAX_RISK_PCT = DEFAULT_RISK_PCT
        /\ ClassOf(lastH) = "Defensive" =>
            ~TRADING_BLOCKED /\ MARGIN_MAX_RISK_PCT = REDUCED_RISK_PCT

\* C4: after each check the blocked flag is that of the class of the ratio read
\* (set for Danger and Critical, clear for Defensive and Healthy), and "recovered"
\* is logged exactly when the check reads Healthy and the check before it read
\* Danger or Critical.
C4_ClassSequenceAndRecovered ==
    checked =>
        /\ TRADING_BLOCKED <=> ClassOf(lastH) \in {"Danger", "Critical"}
        /\ recovered <=> (prevLow /\ ClassOf(lastH) = "Healthy")

\* C5: when the liquidation loop of clear() has visited the account, every
\* asset of the account other than the quote asset went through the cleanup
\* (cancel, repay, sell), also the assets with no free balance.
C5_LiquidationCoversEveryAsset ==
    (pc = "clear" /\ clearQueue = <<>>) => \A a \in Assets : a \in Range(cleared)

\* C6: the risk fraction an entry is sized with is the minimum of the signal's
\* risk_pct (the default when absent or not numeric) and MARGIN_MAX_RISK_PCT, so it
\* is at most the maximum the most recent successful check set, and the long's
\* quote amount is sized with it.
C6_RiskIsMinOfSignalAndMax ==
    ent.resolved =>
        /\ ent.risk = Min(IF ent.riskIn \in {Absent, Invalid} THEN DEFAULT_RISK_PCT
                          ELSE ent.riskIn,
                          MARGIN_MAX_RISK_PCT)
        /\ ent.risk <= MARGIN_MAX_RISK_PCT
        /\ (lastH # Absent /\ ClassOf(lastH) = "Defensive") => ent.risk <= REDUCED_RISK_PCT
        /\ ent.side = "BUY" =>
            ent.sized = floor_to_step_str(ent.balance * ent.risk, 100,
                                          exchangeInfo.tickSize).val

\* a signal asking for 10% was sized with the 2% a Defensive check allows
C6_Witness ==
    /\ ent.resolved
    /\ ent.riskIn = 10
    /\ ent.risk = REDUCED_RISK_PCT
    /\ ent.balance > 0
    /\ EntryCallIssued

C8_NoRetryAfter4xx ==
    \A k \in 1..Len(rc.attempts) : rc.attempts[k] = "400" => k = Len(rc.attempts)

\* rank of a cleanup call in the order cancel, debt buy, repay, residual sell
StepRank(op) ==
    IF op = "cancel" THEN 1
    ELSE IF op = "order_BUY" THEN 2
    ELSE IF op = "repay" THEN 3
    ELSE 4

CleanupPcs == {"cancel", "repay", "refresh", "sell", "cleanup_ret"}

\* C9, state part: an entry is reached only after a cleanup of its symbol; a
\* cleanup run issues its calls in the order cancel, buy, repay, sell, starting
\* with the cancel; while a run is active the handler has answered nothing, and
\* after a failed step control is at a later step of the run or at its return.
C9_CleanupState ==
    /\ (pc \in {"long", "short"} \/ ent.active) =>
        /\ calls # <<>>
        /\ calls[1] = Call("cancel", "cleanup", data.symbol)
    /\ \A i \in 1..Len(calls) : \A j \in 1..Len(calls) :
        (calls[i].by = "cleanup" /\ calls[j].by = "entry") => i < j
    /\ run.active <=> pc \in CleanupPcs
    /\ run.active =>
        /\ response = ""
        /\ \A i \in 1..Len(run.calls) : \A j \in 1..Len(run.calls) :
            i < j => StepRank(run.calls[i]) < StepRank(run.calls[j])
        /\ pc # "cancel" => (run.calls # <<>> /\ run.calls[1] = "cancel")
    /\ run.failed # {} => run.active
    /\ 1 \in run.failed => pc \in {"repay", "refresh", "sell", "cleanup_ret"}
    /\ 2 \in run.failed => pc \in {"sell", "cleanup_ret"}
    /\ 3 \in run.failed => pc = "cleanup_ret"

\* C9, step part: step 1 is followed by step 2 whether or not it failed, and a
\* cleanup run of a signal returns into the second margin check of that signal,
\* whatever failed, with the risk state and the payload untouched.
C9_CleanupStep ==
    /\ pc = "cancel" => pc' = "repay"
    /\ (pc = "cleanup_ret" /\ run.ret = "webhook") =>
        /\ pc' = "check"
        /\ chk' = 2
        /\ response' = ""
        /\ UNCHANGED <<TRADING_BLOCKED, MARGIN_MAX_RISK_PCT, data>>

\* C9: cleanup runs before every entry, in the fixed order of its steps; no
\* failure of a step leaves the cleanup, a failed step 1 is followed by step 2,
\* and the signal goes on to its entry decision after any cleanup failure.
C9_CleanupOrderAndSwallow == [](C9_CleanupState) /\ [][C9_CleanupStep]_vars

\* a cleanup run of a signal in which all three steps failed is returning
C9_Witness ==
    /\ pc = "cleanup_ret"
    /\ run.ret = "webhook"
    /\ run.failed = {1, 2, 3}
    /\ run.calls = <<"cancel", "order_BUY", "order_SELL">>

\* C10: the debt-covering buy of step 2 is sent only with borrowed > free, a
\* quantity (the missing amount with its buffer, floored to stepSize) above zero,
\* quantity x price >= minNotional and quantity x price <= free quote balance;
\* when one of these fails step 2 ends without a buy order.
C10_DebtBuyOnlyWhenCovered ==
    /\ run.s2.bought =>
        /\ run.s2.borrowed > run.s2.free
        /\ run.s2.qty = DebtBuyQty(run.s2.borrowed, run.s2.free,
                                   exchangeInfo.stepSize).val
        /\ run.s2.qty > 0
        /\ run.s2.qty * run.s2.price >= exchangeInfo.minNotional * 100
        /\ run.s2.qty * run.s2.price <= run.s2.quote * 100
        /\ "order_BUY" \in Range(run.calls)
    /\ run.s2.outcome \in {"no_asset", "no_debt", "refused_zero", "refused_notional",
                           "refused_usdc"} =>
        "order_BUY" \notin Range(run.calls)
    /\ "order_BUY" \in Range(run.calls) =>
        run.s2.outcome \in {"bought", "buy_failed", "raised", "repaid", "nothing_to_repay"}

\* a debt-covering buy was sent and accepted
C10_Witness ==
    /\ run.s2.bought
    /\ run.s2.outcome = "bought"
    /\ run.s2.borrowed > run.s2.free
    /\ pc = "refresh"

\* the calls place_sl_tp_margin issued
BracketOps == {calls[i].op : i \in {k \in 1..Len(calls) : calls[k].by = "bracket"}}

OcoOps == {"oco_BUY", "oco_SELL"}

\* C11: when the exchange rejects the OCO order, a stop order and a limit order
\* are placed in its stead, one after the other.
C11_FallbackAfterOcoRejection ==
    brk.outcome = "oco_failed" =>
        Cardinality({k \in 1..Len(calls) :
                        calls[k].by = "bracket" /\ calls[k].op \notin OcoOps}) >= 2

\* C12: when exactly one of the two legs fails its validation, the exit order of
\* the other leg is still placed.
C12_ValidLegStillPlaced ==
    (brk.active /\ LegValid(brk.sl, brk.qty, exchangeInfo)
                   # LegValid(brk.tp, brk.qty, exchangeInfo)) =>
        BracketOps # {}

\* C13: the quantity of every order sent is a multiple of stepSize, and the
\* take-profit price, stopPrice and stopLimitPrice of every OCO order sent are
\* multiples of tickSize.
C13_SentValuesAreMultiples ==
    /\ BracketOps # {} =>
        /\ brk.qty % exchangeInfo.stepSize.units = 0
        /\ brk.tp % exchangeInfo.tickSize.units = 0
        /\ brk.sl % exchangeInfo.tickSize.units = 0
        /\ brk.stopLimit % exchangeInfo.tickSize.units = 0
    /\ Call("order_SELL", "entry", data.symbol) \in Range(calls) =>
        ent.sellQty % exchangeInfo.stepSize.units = 0
    /\ run.s2.bought => run.s2.qty % exchangeInfo.stepSize.units = 0

\* C14: for a long the quantized stop is at most the raw stop and the quantized
\* take-profit at least the raw take-profit, so raw stop < entry < raw take-profit
\* gives stopPrice < entry < take-profit price; for a short the mirror.
C14_ConservativeRounding ==
    brk.active =>
        LET rs == RawStop(ent.side, ent.entryPrice, data.sl)
            rt == RawTake(ent.side, ent.entryPrice, data.tp)
            entry == ent.entryPrice
        IN  IF ent.side = "BUY" THEN
                /\ brk.sl * rs.den <= rs.num
                /\ brk.tp * rt.den >= rt.num
                /\ (rs.num < entry * rs.den /\ entry * rt.den < rt.num) =>
                    (brk.sl < entry /\ entry < brk.tp)
            ELSE
                /\ brk.sl * rs.den >= rs.num
                /\ brk.tp * rt.den <= rt.num
                /\ (rs.num > entry * rs.den /\ entry * rt.den > rt.num) =>
                    (brk.sl > entry /\ entry > brk.tp)

\* a long whose overrides 98.03 / 106.01 fall between ticks: the stop went down,
\* the take-profit up, and the OCO order was placed
C14_Witness ==
    /\ brk.outcome = "oco_placed"
    /\ ent.side = "BUY"
    /\ data.sl = 9803
    /\ data.tp = 10601
    /\ brk.sl < 9803
    /\ brk.tp > 10601
    /\ brk.sl < ent.entryPrice
    /\ ent.entryPrice < brk.tp

\* C15: for value >= 0 and step > 0, floor_to_step_str(value, step) is a multiple
\* of step, at most value, less than one step below value, and not negative; it
\* is written with the decimals of the step.
C15_FloorToStep ==
    fq.state # "idle" =>
        /\ fq.q.val % fq.step.units = 0
        /\ fq.q.val >= 0
        /\ fq.q.val * fq.den <= fq.num
        /\ fq.num - fq.q.val * fq.den < fq.step.units * fq.den
        /\ fq.q.dec = fq.step.dec

\* a value with more than two decimals, strictly between 0.10 and 0.15, was
\* floored to 0.10 with step 0.05
C15_Witness ==
    /\ fq.state = "once"
    /\ fq.step.units = 5
    /\ fq.den = 3
    /\ fq.q.val = 10
    /\ fq.q.val * fq.den < fq.num

\* C16: floor_to_step_str applied to its own result returns that result.
C16_FloorIdempotent == fq.state = "twice" => fq.qq = fq.q

\* a value between multiples of 0.05 was floored, and flooring the result again
\* gave the same
C16_Witness ==
    /\ fq.state = "twice"
    /\ fq.step.units = 5
    /\ fq.q.val > 0
    /\ fq.q.val * fq.den < fq.num
    /\ fq.qq = fq.q

\* C17: with the dry-run flag set no mutating exchange call (order, cancel,
\* borrow, repay) is issued while a trading signal is handled.
C17_DryRunNoMutation == DRY_RUN => calls = <<>>

BadFieldResponses == {"400_missing", "400_invalid_side"}

\* C18: a signal with a missing symbol, a missing side or a side that is not
\* accepted is answered 400 before any exchange call, read-only ones included.
C18_RejectedBeforeAnyCall ==
    response \in BadFieldResponses => (calls = <<>> /\ ~didRead)

EntryOrderOps == {"order_BUY", "order_SELL"}

\* C19: when the entry order raises, place_sl_tp_margin is not entered and no
\* bracket order is sent; after the bracket was attempted, whatever its outcome,
\* the handler is done, a bracket call is the last call of the request, and the
\* only market order of the entry is the one of the entry's own side.
C19_EntryFailureAndNoUnwind ==
    /\ ent.result = "raised" =>
        /\ ~brk.active
        /\ BracketOps = {}
        /\ pc = "done"
        /\ response = "500"
    /\ brk.active =>
        /\ pc = "done"
        /\ ent.result = "order"
        /\ \A k \in 1..Len(calls) :
            /\ calls[k].by = "bracket" => k = Len(calls)
            /\ (calls[k].by = "entry" /\ calls[k].op \in EntryOrderOps) =>
                calls[k].op = "order_" \o ent.side
        /\ brk.outcome \in {"invalid_leg", "raised"} =>
            (calls[Len(calls)].by = "entry" /\ calls[Len(calls)].op \in EntryOrderOps)

\* the entry order of a long was sent and raised: the request ended with 500
\* and without a bracket
C19_Witness ==
    /\ ent.result = "raised"
    /\ Call("order_BUY", "entry", data.symbol) \in Range(calls)
    /\ pc = "done"
    /\ ~brk.active

\* C20: when the entry succeeded and the bracket was not placed, the answer to
\* the caller differs from the answer of a fully bracketed entry.
C20_ReplyCarriesBracketWarning ==
    (pc = "done" /\ brk.active /\ brk.outcome # "oco_placed") =>
        WebhookReply(ent, brk) # WebhookReply(ent, [brk EXCEPT !.outcome = "oco_placed"])

BlockedResponses == {"blocked_protection", "blocked_by_margin"}

\* C21: a request answered "blocked" after its margin check read a ratio in the
\* Danger band has issued no cancel, order, borrow or repay call.
C21_DangerBlockTouchesNothing ==
    (pc = "done" /\ response \in BlockedResponses /\ checked
        /\ ClassOf(lastH) = "Danger") =>
        calls = <<>>

RefusedBuys == {"refused_zero", "refused_notional", "refused_usdc"}

\* C22: when step 2 of a cleanup run found debt above the free balance and
\* refused the debt-covering buy, the run issues no repay and no residual SELL.
C22_RefusedBuyAbortsCleanup ==
    run.s2.outcome \in RefusedBuys =>
        /\ "repay" \notin Range(run.calls)
        /\ "order_SELL" \notin Range(run.calls)

\* C23: the exchange carries out the order-placement request of one call at
\* most once, whatever happens to its responses.
C23_WriteExecutedAtMostOnce == rc.method = "POST" => rc.executed <= 1

\* C24: with requests handled on concurrent threads, a request whose own
\* margin check read a ratio below 1.25 neither reaches an entry function nor
\* sends an entry order.
C24_NoEntryAfterOwnLowRatio ==
    \A t \in Threads : thr[t].sawLow => (thr[t].pc # "entry" /\ ~thr[t].entered)

\* the borrow of a short entry was sent and did not raise
BorrowCompleted ==
    /\ ent.side = "SELL"
    /\ Call("loan", "entry", data.symbol) \in Range(calls)
    /\ ~(ent.result = "raised" /\ calls[Len(calls)].op = "loan")

\* C25: a short entry that completed its borrow has sent the market SELL of the
\* borrowed quantity before it returns.
C25_BorrowFollowedBySell ==
    BorrowCompleted => Call("order_SELL", "entry", data.symbol) \in Range(calls)

====
